---- MODULE Spec2Model ----
(***************************************************************************)
(* Model of kad-ecoli/rateratio_test: p_adjust.p_adjust (multiple          *)
(* comparison adjustment) and rateratio.test (exact Poisson rate ratio     *)
(* test).  Both are pure functions: Init draws the arguments of one call   *)
(* from bounded sets and a single action runs the whole function body.     *)
(*                                                                         *)
(* The sources are Python 2 (xrange, None > 0 is False).  Floating point   *)
(* numbers are modelled as exact rationals <<num, den>> in lowest terms    *)
(* with den > 0, so rounding is not part of the model.                     *)
(***************************************************************************)
EXTENDS Integers, Sequences, FiniteSets

VARIABLES
    pc,          \* "called" while the call is pending, "returned" afterwards
    p,           \* p_adjust: the p-values (sequence of rationals)
    method,      \* p_adjust: the method string as passed
    n,           \* p_adjust: <<>> for None, <<k>> for a supplied count k
    p_ordered,   \* p_adjust: the permutation np.argsort returned
    a_status,    \* p_adjust: "pending", "ok" or the name of the exception
    qv,          \* p_adjust: the returned collection (<<>> when it raised)
    x,           \* test: the counts
    t_n,         \* test: the times at risk (the parameter n of test)
    RR,          \* test: the null rate ratio (rational)
    alternative, \* test: the alternative as passed
    conf_level,  \* test: the confidence level (rational)
    t_status,    \* test: "pending", "ok" or the name of the exception
    t_message,   \* test: the message of the failed assertion ("" when none)
    RVAL         \* test: the htest record (NoRecord until it is constructed)

avars == <<p, method, n, p_ordered, a_status, qv>>
tvars == <<x, t_n, RR, alternative, conf_level, t_status, t_message, RVAL>>
vars == <<pc, avars, tvars>>

-----------------------------------------------------------------------------
(* Bounds of the model *)
MaxLen == 3       \* longest enumerated p-value collection
MaxN == 4         \* largest supplied comparison count
MaxExtra == 1     \* how far past the small-sample threshold the long inputs go
MaxCount == 3     \* largest event count
MaxTime == 2      \* largest time at risk

(* Program constants *)
SmallThreshold == 100

-----------------------------------------------------------------------------
(* Exact rational arithmetic standing in for Python floats *)
Abs(a) == IF a < 0 THEN -a ELSE a

RECURSIVE GCD(_, _)
GCD(a, b) == IF b = 0 THEN a ELSE GCD(b, a % b)

Rat(a, b) ==
    LET g == GCD(Abs(a), Abs(b))
        s == IF b < 0 THEN -1 ELSE 1
    IN  <<(s * a) \div g, (s * b) \div g>>

R(k) == <<k, 1>>
RMul(a, b) == Rat(a[1] * b[1], a[2] * b[2])
RDiv(a, b) == Rat(a[1] * b[2], a[2] * b[1])
\* sums and comparisons go through the least common denominator
ScaleTo(a, b) == a[1] * (b[2] \div GCD(a[2], b[2]))
RAdd(a, b) ==
    Rat(ScaleTo(a, b) + ScaleTo(b, a), a[2] * (b[2] \div GCD(a[2], b[2])))
RSub(a, b) ==
    Rat(ScaleTo(a, b) - ScaleTo(b, a), a[2] * (b[2] \div GCD(a[2], b[2])))
RLt(a, b) == ScaleTo(a, b) < ScaleTo(b, a)
RLe(a, b) == ScaleTo(a, b) <= ScaleTo(b, a)
RMin(a, b) == IF RLt(b, a) THEN b ELSE a

One == R(1)
Zero == R(0)

Range(s) == {s[i] : i \in DOMAIN s}

-----------------------------------------------------------------------------
(* p_adjust.py *)

p_adjust_methods == {"fdr", "bonferroni", "none"}

\* str(method).lower()
Lower(m) ==
    CASE m = "BH" -> "bh"
      [] m = "FDR" -> "fdr"
      [] OTHER -> m

\* method = str(method).lower(); "bh" is an alias of "fdr"
NormMethod(m) == IF Lower(m) = "bh" THEN "fdr" ELSE Lower(m)

\* if n > 0: n *= 1.  else: n = 1.*len(p)      (Python 2: None > 0 is False)
EffectiveN(cnt, pv) ==
    IF cnt # <<>> /\ cnt[1] > 0 THEN R(cnt[1]) ELSE R(Len(pv))

\* BonferroniCap with the cap forgotten
BonferroniCap_NoCap(v) == v

\* qv[qv > 1] = 1.
BonferroniCap(v) == IF RLt(One, v) THEN One ELSE v

\* qv = n * p; qv[qv > 1] = 1.
Bonferroni(pv, nn) == [i \in 1..Len(pv) |-> BonferroniCap(RMul(nn, pv[i]))]

\* The pi0 estimate.  Below the threshold it is 1.0; at or above it the first
\* statement that runs after lam is built reads the unbound name sp.
Pi0(pv) ==
    IF Len(pv) < SmallThreshold
    THEN [status |-> "ok", value |-> One]
    ELSE [status |-> "NameError", value |-> Zero]

\* np.argsort(p): every permutation that puts p in ascending order (the order
\* of equal elements is not fixed by the default sort kind).
SortCandidates(pv, i) ==
    {k \in 1..Len(pv) :
        /\ Cardinality({j \in 1..Len(pv) : RLt(pv[j], pv[k])}) < i
        /\ i <= Cardinality({j \in 1..Len(pv) : RLe(pv[j], pv[k])})}

RECURSIVE SortPerms(_, _)
SortPerms(pv, acc) ==
    IF Len(acc) = Len(pv) THEN {acc}
    ELSE UNION {SortPerms(pv, Append(acc, k)) :
                    k \in SortCandidates(pv, Len(acc) + 1) \ Range(acc)}

Argsorts(pv) == SortPerms(pv, <<>>)

\* p = p[p_ordered]
Take(pv, perm) == [i \in 1..Len(pv) |-> pv[perm[i]]]

\* BHRaw with the division by the rank forgotten
BHRaw_NoRank(pi0, nn, ps, i) == RMul(RMul(pi0, nn), ps[i + 1])

\* pi0*n*p[i]/(i+1.0), i the 0-based rank
BHRaw(pi0, nn, ps, i) == RDiv(RMul(RMul(pi0, nn), ps[i + 1]), R(i + 1))

\* qv = pi0 * n/len(p) * p      (len(p) # 0 here)
InitialQv(pi0, nn, ps) ==
    [i \in 1..Len(ps) |-> RMul(RDiv(RMul(pi0, nn), R(Len(ps))), ps[i])]

\* qv[-1] = min(qv[-1], 1.0)
CapLast(q) == [q EXCEPT ![Len(q)] = RMin(q[Len(q)], One)]

\* StepUp without the running minimum
StepUp_NoMin(raw, next) == raw

\* min(pi0*n*p[i]/(i+1.0), qv[i+1])
StepUp(raw, next) == RMin(raw, next)

\* for i in xrange(len(p)-2, -1, -1): qv[i] = min(..., qv[i+1])
RECURSIVE BackScan(_, _, _, _, _)
BackScan(q, ps, pi0, nn, i) ==
    IF i < 0 THEN q
    ELSE BackScan([q EXCEPT ![i + 1] = StepUp(BHRaw(pi0, nn, ps, i), q[i + 2])],
                  ps, pi0, nn, i - 1)

\* qv = np.zeros(qv.shape); qv[p_ordered] = qv_temp
Reorder(q, perm) ==
    [k \in 1..Len(q) |-> q[CHOOSE i \in 1..Len(q) : perm[i] = k]]

Raise(exc, perm) == [status |-> exc, qv |-> <<>>, p_ordered |-> perm]
Return(q, perm) == [status |-> "ok", qv |-> q, p_ordered |-> perm]

\* whether the call gets as far as np.argsort
ReachesArgsort(pv, meth) ==
    NormMethod(meth) = "fdr" /\ Pi0(pv).status = "ok"

\* the body of p_adjust; perm is what np.argsort returns when it is reached
p_adjust(pv, meth, cnt, perm) ==
    LET m == NormMethod(meth)
        nn == EffectiveN(cnt, pv)
        pi0 == Pi0(pv)
    IN  IF m \notin p_adjust_methods THEN Raise("AssertionError", <<>>)
        ELSE IF m = "none" THEN Return(pv, <<>>)
        ELSE IF m = "bonferroni" THEN Return(Bonferroni(pv, nn), <<>>)
        ELSE IF pi0.status # "ok" THEN Raise(pi0.status, <<>>)
        ELSE IF Len(pv) = 0 THEN Raise("ZeroDivisionError", perm)
        ELSE LET ps == Take(pv, perm)
                 q0 == CapLast(InitialQv(pi0.value, nn, ps))
                 q1 == BackScan(q0, ps, pi0.value, nn, Len(pv) - 2)
             IN  Return(Reorder(q1, perm), perm)

-----------------------------------------------------------------------------
(* rateratio.py *)

\* Values that are not rationals are kept as terms: scipy's beta quantile is
\* an uninterpreted function of its three arguments, and a rate bound built
\* from a quantile is the term (qbeta(q,a,b)*M)/(N*(1-qbeta(q,a,b))).
Term(fn, q, a, b, M, N) ==
    [fn |-> fn, q |-> q, a |-> a, b |-> b, M |-> M, N |-> N]
Num(r) == Term("num", r, 0, 0, 0, 0)
Inf == Term("inf", Zero, 0, 0, 0, 0)
DivByZero == Term("ZeroDivisionError", Zero, 0, 0, 0, 0)

\* qbeta = beta.ppf
qbeta(q, a, b) == Term("qbeta", q, a, b, 0, 0)

RECURSIVE Pow(_, _)
Pow(b, e) == IF e = 0 THEN 1 ELSE b * Pow(b, e - 1)

RECURSIVE Binomial(_, _)
Binomial(m, k) ==
    IF k = 0 \/ k = m THEN 1 ELSE Binomial(m - 1, k - 1) + Binomial(m - 1, k)

RECURSIVE BinomSum(_, _, _)
BinomSum(k, size, pr) ==
    IF k < 0 THEN 0
    ELSE Binomial(size, k) * Pow(pr[1], k) * Pow(pr[2] - pr[1], size - k)
         + BinomSum(k - 1, size, pr)

\* pbinom = binom.cdf: P(Bin(size, pr) <= k)
pbinom(k, size, pr) ==
    IF k < 0 THEN Zero
    ELSE IF k >= size THEN One
    ELSE Rat(BinomSum(k, size, pr), Pow(pr[2], size))

\* htest.__init__
htest(xv, nv, rr, alt) ==
    [p_value |-> Zero,
     estimate |-> <<>>,
     null_value |-> rr,
     conf_int |-> <<>>,
     alternative |-> alt,
     method |-> "Exact Rate Ratio Test, assuming Poisson counts",
     data_name |-> <<xv[1], xv[2], nv[1], nv[2], rr>>]

p_L(k, size, alpha) ==
    IF k = 0 THEN Num(Zero) ELSE qbeta(alpha, k, size - k + 1)

p_U(k, size, alpha) ==
    IF k = size THEN Num(One) ELSE qbeta(RSub(One, alpha), k + 1, size - k)

\* (q*M)/(N*(1-q)) for a proportion bound q
RateBound(q, M, N) ==
    IF q.fn = "num"
    THEN IF q.q = One THEN DivByZero
         ELSE Num(RDiv(RMul(q.q, R(M)), RMul(R(N), RSub(One, q.q))))
    ELSE [q EXCEPT !.fn = "ratio", !.M = M, !.N = N]

\* the expansion of the shorthands of alternative
NormAlternative(alt) ==
    IF alt = "t" \/ alt = "two_sided" THEN "two.sided"
    ELSE IF alt = "g" THEN "greater"
    ELSE IF alt = "l" THEN "less"
    ELSE alt

MsgLenX == "x must have a length 2"
MsgSameLen == "'x' and 'n' must have the same length"
MsgPositiveN == "elements of 'n' must be positive"
MsgNonnegX == "elements of 'x' must be nonnegative"
MsgRR == "RR must be greater than 0"
MsgAlternative ==
    "Error in match.arg(alternative) : \n  'arg' should be one of \"two.sided\", \"less\", \"greater\""
MsgConfLevel == "'conf.level' must be a single number between 0 and 1"

\* ValidRR accepting a null ratio of 0
ValidRR_NonNeg(rr) == rr[1] >= 0

\* RR > 0
ValidRR(rr) == rr[1] > 0

SeqMin(s) == CHOOSE v \in Range(s) : \A w \in Range(s) : v <= w

\* the assertions of test in order: the message of the first that fails, ""
\* when all pass
FirstFailure(xv, nv, rr, alt, cl) ==
    IF Len(xv) # 2 THEN MsgLenX
    ELSE IF Len(xv) # Len(nv) THEN MsgSameLen
    ELSE IF ~(SeqMin(nv) > 0) THEN MsgPositiveN
    ELSE IF ~(SeqMin(xv) >= 0) THEN MsgNonnegX
    ELSE IF ~ValidRR(rr) THEN MsgRR
    ELSE IF NormAlternative(alt) \notin {"two.sided", "less", "greater"}
         THEN MsgAlternative
    ELSE IF ~(cl[1] > 0 /\ RLt(cl, One)) THEN MsgConfLevel
    ELSE ""

\* pval_less, pval_greater
PvalLess(Y, X, pRR) == pbinom(Y, X + Y, pRR)
\* PvalGreater with the cumulative probability taken at Y instead of Y-1
PvalGreater_OffByOne(Y, X, pRR) == RSub(One, pbinom(Y, Y + X, pRR))

PvalGreater(Y, X, pRR) == RSub(One, pbinom(Y - 1, Y + X, pRR))

\* TwoSidedP without the cap at 1
TwoSidedP_NoCap(less, greater) == RMul(R(2), RMin(less, greater))

\* min( (1, 2*min(pval_less,pval_greater) ) )
TwoSidedP(less, greater) == RMin(One, RMul(R(2), RMin(less, greater)))

\* the proportion bound behind the finite end of each one-sided interval
\* LessProportion taken from the lower bound function
LessProportion_Lower(Y, size, alpha) == p_L(Y, size, alpha)

LessProportion(Y, size, alpha) == p_U(Y, size, alpha)
GreaterProportion(Y, size, alpha) == p_L(Y, size, alpha)

\* RVAL.p_value and RVAL.conf_int (without the trailing conf_level)
Branch(alt, Y, X, N, M, pRR, cl) ==
    LET less == PvalLess(Y, X, pRR)
        greater == PvalGreater(Y, X, pRR)
        one == RSub(One, cl)
        half == RDiv(RSub(One, cl), R(2))
    IN  IF alt = "less"
        THEN [p_value |-> less,
              conf_int |-> <<Num(Zero),
                             RateBound(LessProportion(Y, X + Y, one), M, N)>>]
        ELSE IF alt = "greater"
        THEN [p_value |-> greater,
              conf_int |-> <<RateBound(GreaterProportion(Y, X + Y, one), M, N),
                             Inf>>]
        ELSE [p_value |-> TwoSidedP(less, greater),
              conf_int |-> <<RateBound(p_L(Y, X + Y, half), M, N),
                             RateBound(p_U(Y, X + Y, half), M, N)>>]

Failed(exc, msg, rec) == [status |-> exc, message |-> msg, RVAL |-> rec]

\* the body of test
test(xv, nv, rr, alt, cl) ==
    LET msg == FirstFailure(xv, nv, rr, alt, cl)
    IN  IF msg # "" THEN Failed("AssertionError", msg, <<>>)
        ELSE
        LET a == NormAlternative(alt)
            rval == htest(xv, nv, rr, a)
            Y == xv[1]
            N == nv[1]
            X == xv[2]
            M == nv[2]
        IN  IF X = 0 THEN Failed("ZeroDivisionError", "", <<rval>>)
            ELSE
            LET est == <<RDiv(Rat(Y, N), Rat(X, M)), Rat(Y, N), Rat(X, M)>>
                pRR == RDiv(RMul(R(N), rr), RAdd(RMul(R(N), rr), R(M)))
                br == Branch(a, Y, X, N, M, pRR, cl)
            IN  IF \E i \in 1..2 : br.conf_int[i].fn = "ZeroDivisionError"
                THEN Failed("ZeroDivisionError", "",
                            <<[rval EXCEPT !.estimate = est,
                                           !.p_value = br.p_value]>>)
                ELSE [status |-> "ok", message |-> "",
                      RVAL |-> <<[rval EXCEPT
                                    !.estimate = est,
                                    !.p_value = br.p_value,
                                    !.conf_int = Append(br.conf_int, Num(cl))]>>]

-----------------------------------------------------------------------------
(* The arguments the calls are made with *)

PValues == {Zero, Rat(3, 100), Rat(1, 5), Rat(2, 5), One}
ShortInputs == UNION {[1..L -> PValues] : L \in 0..MaxLen}
Ramp(L) == [i \in 1..L |-> Rat(L + 1 - i, L)]
LongInputs ==
    {Ramp(L) : L \in SmallThreshold..(SmallThreshold + MaxExtra)}
Methods == {"fdr", "BH", "bonferroni", "none", "holm"}
Counts == {<<>>} \cup {<<k>> : k \in -1..MaxN}

XInputs == [1..2 -> -1..MaxCount] \cup {<<1>>, <<1, 1, 1>>}
NInputs == [1..2 -> 0..MaxTime] \cup {<<1>>, <<1, 1, 1>>}
RRInputs == {Zero, Rat(1, 2), One, R(2)}
Alternatives ==
    {"two.sided", "less", "greater", "t", "two_sided", "g", "l", "b"}
ConfLevels == {Zero, Rat(19, 20), One}

AdjustIdle ==
    /\ p = <<>> /\ method = "" /\ n = <<>>
    /\ p_ordered = <<>> /\ a_status = "idle" /\ qv = <<>>

TestIdle ==
    /\ x = <<>> /\ t_n = <<>> /\ RR = One /\ alternative = ""
    /\ conf_level = Zero /\ t_status = "idle" /\ t_message = "" /\ RVAL = <<>>

InitAdjust ==
    /\ pc = "called"
    /\ p \in ShortInputs \cup LongInputs
    /\ method \in Methods
    /\ n \in Counts
    /\ p_ordered = <<>> /\ a_status = "pending" /\ qv = <<>>
    /\ TestIdle

InitTest ==
    /\ pc = "called"
    /\ x \in XInputs
    /\ t_n \in NInputs
    /\ RR \in RRInputs
    /\ alternative \in Alternatives
    /\ conf_level \in ConfLevels
    /\ t_status = "pending" /\ t_message = "" /\ RVAL = <<>>
    /\ AdjustIdle

\* one call of p_adjust(p, method, n)
P_adjust ==
    /\ pc = "called"
    /\ a_status = "pending"
    /\ \E perm \in (IF ReachesArgsort(p, method) THEN Argsorts(p) ELSE {<<>>}) :
          LET r == p_adjust(p, method, n, perm)
          IN  /\ a_status' = r.status
              /\ qv' = r.qv
              /\ p_ordered' = r.p_ordered
    /\ pc' = "returned"
    /\ UNCHANGED <<p, method, n, tvars>>

\* one call of test(x, n, RR, alternative, conf_level)
Test ==
    /\ pc = "called"
    /\ t_status = "pending"
    /\ LET r == test(x, t_n, RR, alternative, conf_level)
       IN  /\ t_status' = r.status
           /\ t_message' = r.message
           /\ RVAL' = r.RVAL
    /\ pc' = "returned"
    /\ UNCHANGED <<x, t_n, RR, alternative, conf_level, avars>>

NextAdjust == P_adjust
NextTest == Test

SpecAdjust == InitAdjust /\ [][NextAdjust]_vars
SpecTest == InitTest /\ [][NextTest]_vars

-----------------------------------------------------------------------------
(* Properties of p_adjust *)

Returned == pc = "returned"

\* the comparison count a call works with, as the documentation states it
CountUsed == IF n = <<>> \/ n[1] <= 0 THEN Len(p) ELSE n[1]

MinOne(v) == IF RLe(One, v) THEN One ELSE v

RatSetMin(S) == CHOOSE v \in S : \A w \in S : RLe(v, w)

\* p[j] at sorted position j (1-based), and the raw BH quantity there, the
\* last one capped at 1
SortedP(j) == p[p_ordered[j]]
RawBH(j) == Rat(CountUsed * SortedP(j)[1], SortedP(j)[2] * j)
CappedRawBH(j) == IF j = Len(p) THEN MinOne(RawBH(j)) ELSE RawBH(j)

FdrSmallCall ==
    /\ Returned
    /\ NormMethod(method) = "fdr"
    /\ Len(p) < SmallThreshold
    /\ CountUsed >= Len(p)

\* C1: for method "fdr" on fewer than 100 p-values and a comparison count of
\* at least len(p), a call on a non-empty collection returns, and whenever the
\* call returns: p_ordered sorts p ascending, the value written back to the
\* original position of the p-value at sorted position i is the minimum over
\* j >= i of n*p[j]/j (1-based j, the last one capped at 1), these values are
\* non-decreasing in sorted order, and the output is as long as the input.
C1_RunningMinimum ==
    FdrSmallCall =>
        /\ Len(p) >= 1 => a_status = "ok"
        /\ a_status = "ok" =>
            /\ Len(qv) = Len(p)
            /\ Len(p_ordered) = Len(p)
            /\ Range(p_ordered) = 1..Len(p)
            /\ \A i \in 1..(Len(p) - 1) : RLe(SortedP(i), SortedP(i + 1))
            /\ \A i \in 1..Len(p) :
                  qv[p_ordered[i]] =
                      RatSetMin({CappedRawBH(j) : j \in i..Len(p)})
            /\ \A i \in 1..(Len(p) - 1) :
                  RLe(qv[p_ordered[i]], qv[p_ordered[i + 1]])

\* a returned fdr result in which the running minimum lowered a raw value and
\* the sort moved an element
C1_Witness ==
    /\ FdrSmallCall
    /\ a_status = "ok"
    /\ Len(p) = MaxLen
    /\ p_ordered[1] # 1
    /\ \E i \in 1..(Len(p) - 1) : RLt(qv[p_ordered[i]], RawBH(i))

\* C2: for method "bonferroni" the call returns q with q[i] = min(1, n*p[i]),
\* n the supplied count or len(p) when none or a non-positive one is supplied;
\* every q[i] <= 1; and a call with a larger n gives no smaller q[i].
C2_Bonferroni ==
    (Returned /\ NormMethod(method) = "bonferroni") =>
        /\ a_status = "ok"
        /\ Len(qv) = Len(p)
        /\ \A i \in 1..Len(p) :
              /\ qv[i] = MinOne(Rat(CountUsed * p[i][1], p[i][2]))
              /\ RLe(qv[i], One)
        /\ \A other \in Counts :
              LET m == IF other = <<>> \/ other[1] <= 0 THEN Len(p) ELSE other[1]
                  r == p_adjust(p, method, other, <<>>)
              IN  m >= CountUsed =>
                      \A i \in 1..Len(p) : RLe(qv[i], r.qv[i])

\* a bonferroni call in which one value is capped and another is not
C2_Witness ==
    /\ Returned
    /\ NormMethod(method) = "bonferroni"
    /\ n # <<>> /\ n[1] > Len(p)
    /\ \E i, j \in 1..Len(p) :
          /\ RLt(One, Rat(CountUsed * p[i][1], p[i][2])) /\ qv[i] = One
          /\ RLt(Zero, qv[j]) /\ RLt(qv[j], One)

ExampleCall ==
    /\ Returned
    /\ p = <<Rat(3, 100), Rat(1, 5), Rat(2, 5)>>
    /\ method = "fdr"
    /\ n = <<>>

\* C3 as stated: p_adjust([0.03, 0.2, 0.4], method="fdr") returns
\* [0.4, 0.4, 0.4].
C3_Original ==
    ExampleCall => qv = <<Rat(2, 5), Rat(2, 5), Rat(2, 5)>>

\* C3 amended: p_adjust([0.03, 0.2, 0.4], method="fdr") returns
\* [0.09, 0.3, 0.4].
C3_Example ==
    ExampleCall =>
        a_status = "ok" /\ qv = <<Rat(9, 100), Rat(3, 10), Rat(2, 5)>>

C3_Witness == ExampleCall /\ a_status = "ok" /\ Len(qv) = 3

\* C4 as stated: for method "fdr" on 100 or more p-values the call runs to
\* completion and returns a collection as long as the input.
C4_LargeSampleCompletes ==
    (Returned /\ NormMethod(method) = "fdr" /\ Len(p) >= SmallThreshold) =>
        a_status = "ok" /\ Len(qv) = Len(p)

\* C5 as stated: for method "fdr" an input of length 0 or 1 does not fail; the
\* result is as long as the input, min(1, n*p[0]) for a single element.
C5_TinyInputCompletes ==
    (Returned /\ NormMethod(method) = "fdr" /\ Len(p) <= 1) =>
        /\ a_status = "ok"
        /\ Len(qv) = Len(p)
        /\ Len(p) = 1 => qv[1] = MinOne(Rat(CountUsed * p[1][1], p[1][2]))

-----------------------------------------------------------------------------
(* Properties of test *)

AllMessages ==
    {MsgLenX, MsgSameLen, MsgPositiveN, MsgNonnegX, MsgRR, MsgAlternative,
     MsgConfLevel}

\* whether the precondition a message names is violated by the arguments
Violates(msg) ==
    CASE msg = MsgLenX -> Len(x) # 2
      [] msg = MsgSameLen -> Len(t_n) # Len(x)
      [] msg = MsgPositiveN -> \E i \in DOMAIN t_n : t_n[i] <= 0
      [] msg = MsgNonnegX -> \E i \in DOMAIN x : x[i] < 0
      [] msg = MsgRR -> RR[1] <= 0
      [] msg = MsgAlternative ->
            alternative \notin
                {"two.sided", "less", "greater", "t", "two_sided", "g", "l"}
      [] msg = MsgConfLevel -> RLe(conf_level, Zero) \/ RLe(One, conf_level)

Violated == {msg \in AllMessages : Violates(msg)}

\* C6: a call that violates a precondition raises an assertion failure before
\* the htest record is constructed, and when exactly one precondition is
\* violated the message is the one naming it.
C6_Preconditions ==
    Returned =>
        /\ Violated # {} => (t_status = "AssertionError" /\ RVAL = <<>>)
        /\ Cardinality(Violated) = 1 => t_message \in Violated

\* a call whose only violation is RR = 0
C6_Witness ==
    /\ Returned
    /\ Violated = {MsgRR}
    /\ t_status = "AssertionError"
    /\ t_message = MsgRR

TestOk == Returned /\ t_status = "ok"

x0 == x[1]
x1 == x[2]
n0 == t_n[1]
n1 == t_n[2]

\* the two proportion bound functions as the documentation defines them, at
\* the one-sided tail 1 - conf_level
LowerProportion ==
    IF x0 = 0 THEN Num(Zero)
    ELSE Term("qbeta", RSub(One, conf_level), x0, x1 + 1, 0, 0)
UpperProportion ==
    IF x1 = 0 THEN Num(One)
    ELSE Term("qbeta", conf_level, x0 + 1, x1, 0, 0)

\* (q*n1)/(n0*(1-q))
RateOf(q) ==
    IF q.fn = "num"
    THEN Num(Rat(q.q[1] * n1, n0 * (q.q[2] - q.q[1])))
    ELSE Term("ratio", q.q, q.a, q.b, n1, n0)

\* C7 as stated: "less" gives [0, U] with U from the lower bound proportion,
\* "greater" gives [L, +inf) with L from the upper bound proportion.
C7_Original ==
    TestOk =>
        /\ RVAL[1].alternative = "less" =>
              RVAL[1].conf_int =
                  <<Num(Zero), RateOf(LowerProportion), Num(conf_level)>>
        /\ RVAL[1].alternative = "greater" =>
              RVAL[1].conf_int =
                  <<RateOf(UpperProportion), Inf, Num(conf_level)>>

\* C7 amended: in the record test returns, "less" gives [0, U] with U the
\* transform of the UPPER bound proportion (the conf_level-quantile of
\* Beta(x0+1, x1)), and "greater" gives [L, +inf) with L the transform of the
\* LOWER bound proportion (0 if x0 = 0, else the (1-conf_level)-quantile of
\* Beta(x0, x1+1)).
C7_OneSidedInterval ==
    TestOk =>
        /\ RVAL[1].alternative = "less" =>
              RVAL[1].conf_int =
                  <<Num(Zero), RateOf(UpperProportion), Num(conf_level)>>
        /\ RVAL[1].alternative = "greater" =>
              RVAL[1].conf_int =
                  <<RateOf(LowerProportion), Inf, Num(conf_level)>>

\* a returned one-sided "less" interval whose upper end is a beta quantile
C7_Witness ==
    /\ TestOk
    /\ alternative = "l"
    /\ x0 > 0
    /\ RVAL[1].conf_int[2].fn = "ratio"

\* p = n0*RR/(n0*RR + n1) and the two one-sided p-values
NullProportion == Rat(n0 * RR[1], n0 * RR[1] + n1 * RR[2])
ExpectedLess == pbinom(x0, x0 + x1, NullProportion)
ExpectedGreater == RSub(One, pbinom(x0 - 1, x0 + x1, NullProportion))

\* C8: the returned p_value is pval_less for "less"/"l", pval_greater for
\* "greater"/"g" and min(1, 2*min(pval_less, pval_greater)) for
\* "two.sided"/"t"/"two_sided", which never exceeds 1.
C8_PValue ==
    TestOk =>
        /\ alternative \in {"less", "l"} => RVAL[1].p_value = ExpectedLess
        /\ alternative \in {"greater", "g"} =>
              RVAL[1].p_value = ExpectedGreater
        /\ alternative \in {"two.sided", "t", "two_sided"} =>
              /\ RVAL[1].p_value =
                    MinOne(RMul(R(2), RMin(ExpectedLess, ExpectedGreater)))
              /\ RLe(RVAL[1].p_value, One)

\* a two-sided call through a shorthand whose doubled one-sided p-value
\* exceeds 1
C8_Witness ==
    /\ TestOk
    /\ alternative = "two_sided"
    /\ RLt(One, RMul(R(2), RMin(ExpectedLess, ExpectedGreater)))
    /\ RVAL[1].p_value = One

\* the call with the groups exchanged, the null ratio inverted and the given
\* alternative
Swapped(alt) ==
    test(<<x1, x0>>, <<n1, n0>>, Rat(RR[2], RR[1]), alt, conf_level)

C10_ValidCallCompletes ==
    (Returned /\ Violated = {}) =>
        /\ t_status = "ok"
        /\ RVAL # <<>>
        /\ Len(RVAL[1].estimate) = 3
        /\ Len(RVAL[1].conf_int) = 3
====
